---- MODULE Spec2Model ----
(***************************************************************************)
(* A3-to-A4 PDF splitter: the splitting function splitA3ToA4               *)
(* (services/pdfService) and the App component that invokes it.            *)
(*                                                                         *)
(* Units.  Page sizes are integers (points).  A ratio is an integer number *)
(* of hundredths (0.3 is 30), so a crop coordinate, the product of a       *)
(* length and a ratio, is an exact integer number of hundredths of a       *)
(* point: width 1000 at ratio 0.5 is 50000, i.e. 500.00 pt.  Arithmetic is *)
(* exact; the rounding of IEEE doubles is not modelled.                    *)
(* A progress value is an exact fraction <<num, den>>.                     *)
(***************************************************************************)
EXTENDS Integers, Sequences, FiniteSets, TLC

\* ---------------------------------------------------------------- bounds
MaxPages == 3
MaxRuns == 1
MaxEdits == 2
MaxRenders == 2

\* ------------------------------------------------------- input universes
PageSizes == { <<1000, 700>>, <<700, 1000>>, <<800, 800>> }
Orientations == { "auto", "vertical", "horizontal" }
NumberingSides == { "both", "first", "second" }
Undefined == << >>
SplitRatios == { 30, 50 }
EvenSplitRatios == { Undefined, <<30>> }
StartingPageNumbers == { 1, 5 }
StartIndexes == { 0, 1 }

SeqsUpTo(S, n) == UNION { [1 .. k -> S] : k \in 0 .. n }

\* a File: its MIME type, whether PDFDocument.load can parse its bytes, and
\* the sizes of the pages it holds
PdfFile(nm, pgs) == [name |-> nm, type |-> "application/pdf", valid |-> TRUE, pages |-> pgs]
MalformedFile == [name |-> "bad", type |-> "application/pdf", valid |-> FALSE, pages |-> << >>]
NoFile == [name |-> "null", type |-> "", valid |-> FALSE, pages |-> << >>]

SplitOptions ==
  [ orientation : Orientations,
    splitRatio : SplitRatios,
    evenSplitRatio : EvenSplitRatios,
    useDualRatios : BOOLEAN,
    mergeToSingleFile : { TRUE },
    enablePageNumbering : BOOLEAN,
    startingPageNumber : StartingPageNumbers,
    numberingStartFromPageIndex : StartIndexes,
    numberingSide : NumberingSides ]

\* ------------------------------------------------------------- fractions
RatLess(a, b) == a[1] * b[2] < b[1] * a[2]
RatEq(a, b) == a[1] * b[2] = b[1] * a[2]
\* Math.round: the nearest integer, halves upwards
MathRound(a) == (2 * a[1] + a[2]) \div (2 * a[2])

\* ----------------------------------------------- splitA3ToA4, pure parts
\* `${n}`: the decimal text of an integer, as a sequence of characters
Digit(d) == CASE d = 0 -> "0" [] d = 1 -> "1" [] d = 2 -> "2" [] d = 3 -> "3"
              [] d = 4 -> "4" [] d = 5 -> "5" [] d = 6 -> "6" [] d = 7 -> "7"
              [] d = 8 -> "8" [] d = 9 -> "9"
RECURSIVE NatToText(_)
NatToText(n) == IF n < 10 THEN << Digit(n) >>
                ELSE Append(NatToText(n \div 10), Digit(n % 10))
NumToText(n) == IF n < 0 THEN << "-" >> \o NatToText(0 - n) ELSE NatToText(n)

isEvenPage_ZeroBased(i) == i % 2 = 0
isEvenPage(i) == i % 2 = 1

currentRatio(options, i) ==
  IF options.useDualRatios /\ isEvenPage(i) /\ options.evenSplitRatio # Undefined
  THEN options.evenSplitRatio[1]
  ELSE options.splitRatio

useVerticalSplit_Geq(options, width, height) ==
  IF options.orientation = "auto" THEN width >= height
  ELSE options.orientation = "vertical"

useVerticalSplit(options, width, height) ==
  IF options.orientation = "auto" THEN width > height
  ELSE options.orientation = "vertical"

\* setCropBox(x, y, width, height) of the two copies, in hundredths of a point
VerticalSplitPos(width, ratio) == width * ratio
HorizontalSplitPos_FromBottom(height, ratio) == height * ratio
HorizontalSplitPos(height, ratio) == height * (100 - ratio)

FirstCropBox(vertical, width, height, ratio) ==
  IF vertical
  THEN << 0, 0, VerticalSplitPos(width, ratio), height * 100 >>
  ELSE << 0, HorizontalSplitPos(height, ratio), width * 100,
          height * 100 - HorizontalSplitPos(height, ratio) >>

SecondCropBox_FullSize(vertical, width, height, ratio) ==
  IF vertical
  THEN << VerticalSplitPos(width, ratio), 0, width * 100, height * 100 >>
  ELSE << 0, 0, width * 100, height * 100 >>

SecondCropBox(vertical, width, height, ratio) ==
  IF vertical
  THEN << VerticalSplitPos(width, ratio), 0,
          width * 100 - VerticalSplitPos(width, ratio), height * 100 >>
  ELSE << 0, 0, width * 100, HorizontalSplitPos(height, ratio) >>

shouldAddNumberToThisA3Page_Strict(options, i) ==
  options.enablePageNumbering /\ i > options.numberingStartFromPageIndex

shouldAddNumberToThisA3Page(options, i) ==
  options.enablePageNumbering /\ i >= options.numberingStartFromPageIndex

NumberFirst(options) == options.numberingSide = "both" \/ options.numberingSide = "first"
NumberSecond(options) == options.numberingSide = "both" \/ options.numberingSide = "second"

PostIncrement_Stuck(counter) == counter

\* pageNumberCounter++
PostIncrement(counter) == counter + 1

ProgressValue_Before(i, totalPages) == << i * 100, totalPages >>

\* onProgress argument: ((i + 1) / totalPages) * 100
ProgressValue(i, totalPages) == << (i + 1) * 100, totalPages >>

AddPages_Swapped(outPdf, page1, page2) == Append(Append(outPdf, page2), page1)

\* outPdf.addPage(page1); outPdf.addPage(page2)
AddPages(outPdf, page1, page2) == Append(Append(outPdf, page1), page2)

\* one iteration of the loop on run record r: copy the page twice, crop,
\* stamp, append, report progress
LoopBody(r) ==
  LET i == r.i
      width == r.file.pages[i + 1][1]
      height == r.file.pages[i + 1][2]
      ratio == currentRatio(r.options, i)
      vertical == useVerticalSplit(r.options, width, height)
      add == shouldAddNumberToThisA3Page(r.options, i)
      stamp1 == add /\ NumberFirst(r.options)
      counter1 == IF stamp1 THEN PostIncrement(r.pageNumberCounter) ELSE r.pageNumberCounter
      stamp2 == add /\ NumberSecond(r.options)
      counter2 == IF stamp2 THEN PostIncrement(counter1) ELSE counter1
      page1 == [ source |-> i,
                 cropBox |-> FirstCropBox(vertical, width, height, ratio),
                 text |-> IF stamp1 THEN << NumToText(r.pageNumberCounter) >> ELSE << >> ]
      page2 == [ source |-> i,
                 cropBox |-> SecondCropBox(vertical, width, height, ratio),
                 text |-> IF stamp2 THEN << NumToText(counter1) >> ELSE << >> ]
      out == AddPages(r.outPdf, page1, page2)
  IN [ r EXCEPT !.outPdf = out,
                !.pageNumberCounter = counter2,
                !.progress = Append(@, [ value |-> ProgressValue(i, r.totalPages),
                                         appended |-> Len(out) ]),
                !.i = i + 1,
                !.pc = IF i + 1 < r.totalPages THEN "page" ELSE "save" ]

LoadParses_Always(f) == TRUE

\* PDFDocument.load: parses the bytes or throws
LoadParses(f) == f.valid

\* ------------------------------------------------------------------ state
VARIABLES
  runs,                         \* the invocations of splitA3ToA4, by slot
  file, splitMode, splitRatio, evenSplitRatio, useDualRatios,
  enablePageNumbering, startingPageNumber, numberingStartFromPageIndex,
  numberingSide, status, processedFileUrl, previewInfo, currentPage,
  edits,                        \* number of setting changes made so far
  totalPages, previewLoading,
  effectPending,                \* [file, currentPage] changed at the last commit
                                \* and the preview effect has not run yet
  renders,                      \* the invocations of renderPreview, by slot
  canvas                        \* what the preview canvas shows

configVars == << splitMode, splitRatio, evenSplitRatio, useDualRatios,
                 enablePageNumbering, startingPageNumber,
                 numberingStartFromPageIndex, numberingSide, edits >>
previewVars == << totalPages, previewLoading, effectPending, renders, canvas >>
appVars == << file, configVars, status, processedFileUrl, previewInfo, currentPage,
              previewVars >>
vars == << runs, appVars >>

RunIds == 1 .. MaxRuns

NoOptions ==
  [ orientation |-> "auto", splitRatio |-> 50, evenSplitRatio |-> Undefined,
    useDualRatios |-> FALSE, mergeToSingleFile |-> TRUE,
    enablePageNumbering |-> FALSE, startingPageNumber |-> 1,
    numberingStartFromPageIndex |-> 0, numberingSide |-> "both" ]

\* a slot that has held no invocation yet
NoRun ==
  [ pc |-> "idle", file |-> NoFile, options |-> NoOptions, totalPages |-> 0,
    i |-> 0, pageNumberCounter |-> 0, outPdf |-> << >>, progress |-> << >>,
    err |-> "none" ]

\* the invocation splitA3ToA4(f, options, onProgress), about to load f
CallSplit(f, options) == [ NoRun EXCEPT !.pc = "load", !.file = f, !.options = options ]

\* ------------------------------------------------- splitA3ToA4, the steps
\* Each step runs from one await to the next.  A step that throws rejects
\* the promise; `err` records what was thrown.
Throw(r, what) == [ r EXCEPT !.pc = "threw", !.err = what ]

\* await file.arrayBuffer(); await PDFDocument.load(arrayBuffer)
AfterLoad(r) == IF LoadParses(r.file) THEN [ r EXCEPT !.pc = "font" ] ELSE Throw(r, "parse")

\* PDFDocument.create(); embedFont succeeded; getPages(); counter initialised
AfterEmbedFont(r) ==
  [ r EXCEPT !.totalPages = Len(r.file.pages),
             !.pageNumberCounter = r.options.startingPageNumber,
             !.i = 0,
             !.pc = IF 0 < Len(r.file.pages) THEN "page" ELSE "save" ]

\* await outPdf.save() resolved: the bytes are returned
AfterSave(r) == [ r EXCEPT !.pc = "returned" ]

SplitLoad(id) ==
  /\ runs[id].pc = "load"
  /\ runs' = [runs EXCEPT ![id] = AfterLoad(runs[id])]

SplitEmbedFont(id) ==
  /\ runs[id].pc = "font"
  /\ runs' = [runs EXCEPT ![id] = AfterEmbedFont(runs[id])]

SplitEmbedFontThrows(id) ==
  /\ runs[id].pc = "font"
  /\ runs' = [runs EXCEPT ![id] = Throw(runs[id], "font")]

SplitPage(id) ==
  /\ runs[id].pc = "page"
  /\ runs' = [runs EXCEPT ![id] = LoopBody(runs[id])]

SplitPageThrows(id) ==
  /\ runs[id].pc = "page"
  /\ runs' = [runs EXCEPT ![id] = Throw(runs[id], "copy")]

SplitSave(id) ==
  /\ runs[id].pc = "save"
  /\ runs' = [runs EXCEPT ![id] = AfterSave(runs[id])]

SplitSaveThrows(id) ==
  /\ runs[id].pc = "save"
  /\ runs' = [runs EXCEPT ![id] = Throw(runs[id], "save")]

\* ------------------------------------------------------------ App, state
NoUrl == [source |-> "null", pages |-> 0]
NoPreviewInfo == << >>
Zero == << 0, 1 >>
Hundred == << 100, 1 >>

InitialStatus == [ step |-> "idle", progress |-> Zero, message |-> << "none" >> ]
ReadyStatus == [ step |-> "idle", progress |-> Zero, message |-> << "ready" >> ]
ProcessingStatus == [ step |-> "processing", progress |-> Zero, message |-> << "splitting" >> ]
CompletedStatus == [ step |-> "completed", progress |-> Hundred, message |-> << "success" >> ]
ErrorStatus == [ step |-> "error", progress |-> Zero, message |-> << "failed" >> ]

\* one invocation of renderPreview with the locals of its effect: the file and
\* currentPage of its closure, isMounted, renderTask; pc is the await it is
\* suspended at; err and logged tell how it ended
RenderIds == 1 .. MaxRenders
NoRender ==
  [ pc |-> "idle", file |-> NoFile, page |-> 0, pageToLoad |-> 0,
    isMounted |-> FALSE, renderTask |-> "null", err |-> "none", logged |-> FALSE ]
NoCanvas == [ file |-> "null", page |-> 0, drawn |-> FALSE ]

AppInit ==
  /\ totalPages = 1
  /\ previewLoading = FALSE
  /\ effectPending = FALSE
  /\ renders = [id \in RenderIds |-> NoRender]
  /\ canvas = NoCanvas
  /\ file = NoFile
  /\ splitMode = "auto"
  /\ splitRatio = 50
  /\ evenSplitRatio = 50
  /\ useDualRatios = FALSE
  /\ enablePageNumbering = FALSE
  /\ startingPageNumber = 1
  /\ numberingStartFromPageIndex = 0
  /\ numberingSide = "both"
  /\ status = InitialStatus
  /\ processedFileUrl = NoUrl
  /\ previewInfo = NoPreviewInfo
  /\ currentPage = 1
  /\ edits = 0

\* ------------------------------------- splitA3ToA4 called on its own
\* One invocation with any file and any options; its progress callback only
\* records the values (the `progress` field of the run).
SplitFiles ==
  { PdfFile("doc", pgs) : pgs \in SeqsUpTo(PageSizes, MaxPages) } \cup { MalformedFile }

SplitInit ==
  /\ AppInit
  /\ \E f \in SplitFiles, options \in SplitOptions :
       runs = [id \in RunIds |-> IF id = 1 THEN CallSplit(f, options) ELSE NoRun]

\* the steps of that one invocation; nothing of the App is involved
DirectLoad == SplitLoad(1) /\ UNCHANGED appVars
DirectEmbedFont == SplitEmbedFont(1) /\ UNCHANGED appVars
DirectEmbedFontThrows == SplitEmbedFontThrows(1) /\ UNCHANGED appVars
DirectPage == SplitPage(1) /\ UNCHANGED appVars
DirectPageThrows == SplitPageThrows(1) /\ UNCHANGED appVars
DirectSave == SplitSave(1) /\ UNCHANGED appVars
DirectSaveThrows == SplitSaveThrows(1) /\ UNCHANGED appVars

SplitNext ==
  \/ DirectLoad
  \/ DirectEmbedFont
  \/ DirectEmbedFontThrows
  \/ DirectPage
  \/ DirectPageThrows
  \/ DirectSave
  \/ DirectSaveThrows

SplitSpec == SplitInit /\ [][SplitNext]_vars

\* ---------------------------------------------------------- App, handlers
\* the files the user can pick
AppFiles ==
  { PdfFile("a", << <<700, 1000>>, <<1000, 700>> >>),
    MalformedFile,
    [name |-> "img", type |-> "image/png", valid |-> FALSE, pages |-> << >>] }

\* handleFileChange; the hidden input is opened from the drop zone, which is
\* rendered only while no file is selected
handleFileChange(selectedFile) ==
  /\ file = NoFile
  /\ IF selectedFile.type = "application/pdf"
     THEN /\ file' = selectedFile
          /\ processedFileUrl' = NoUrl
          /\ previewInfo' = NoPreviewInfo
          /\ splitRatio' = 50
          /\ evenSplitRatio' = 50
          /\ currentPage' = 1
          /\ status' = ReadyStatus
          /\ effectPending' = TRUE
          /\ UNCHANGED << runs, splitMode, useDualRatios, enablePageNumbering,
                          startingPageNumber, numberingStartFromPageIndex,
                          numberingSide, edits, totalPages, previewLoading,
                          renders, canvas >>
     ELSE UNCHANGED vars

\* the handler shared by the remove button and by "process next file"
ClearFile ==
  /\ file' = NoFile
  /\ processedFileUrl' = NoUrl
  /\ status' = InitialStatus
  /\ previewInfo' = NoPreviewInfo
  /\ effectPending' = TRUE
  /\ canvas' = NoCanvas
  /\ UNCHANGED << runs, configVars, currentPage, totalPages, previewLoading, renders >>

\* the remove button of the file card
RemoveFile == file # NoFile /\ ClearFile

\* the download button is shown instead of the process button
ShowsDownload == status.step = "completed" /\ processedFileUrl # NoUrl

\* "process next file", shown under the download button
ProcessNextFile == file # NoFile /\ ShowsDownload /\ ClearFile

\* the settings controls, rendered only while a file is selected; none of
\* their states is a dependency of the preview effect
Edit ==
  /\ file # NoFile /\ edits < MaxEdits /\ edits' = edits + 1
  /\ UNCHANGED previewVars

setSplitMode(m) ==
  /\ Edit /\ m # splitMode
  /\ splitMode' = m
  /\ UNCHANGED << runs, file, splitRatio, evenSplitRatio, useDualRatios,
                  enablePageNumbering, startingPageNumber,
                  numberingStartFromPageIndex, numberingSide, status,
                  processedFileUrl, previewInfo, currentPage >>

toggleUseDualRatios ==
  /\ Edit
  /\ useDualRatios' = ~useDualRatios
  /\ UNCHANGED << runs, file, splitMode, splitRatio, evenSplitRatio,
                  enablePageNumbering, startingPageNumber,
                  numberingStartFromPageIndex, numberingSide, status,
                  processedFileUrl, previewInfo, currentPage >>

\* the range inputs: 0.1 .. 0.9 in steps of 0.01
SliderValues == { 30, 50 }

setSplitRatio(v) ==
  /\ Edit /\ v # splitRatio
  /\ splitRatio' = v
  /\ UNCHANGED << runs, file, splitMode, evenSplitRatio, useDualRatios,
                  enablePageNumbering, startingPageNumber,
                  numberingStartFromPageIndex, numberingSide, status,
                  processedFileUrl, previewInfo, currentPage >>

setEvenSplitRatio(v) ==
  /\ Edit /\ useDualRatios /\ v # evenSplitRatio
  /\ evenSplitRatio' = v
  /\ UNCHANGED << runs, file, splitMode, splitRatio, useDualRatios,
                  enablePageNumbering, startingPageNumber,
                  numberingStartFromPageIndex, numberingSide, status,
                  processedFileUrl, previewInfo, currentPage >>

toggleEnablePageNumbering ==
  /\ Edit
  /\ enablePageNumbering' = ~enablePageNumbering
  /\ UNCHANGED << runs, file, splitMode, splitRatio, evenSplitRatio,
                  useDualRatios, startingPageNumber,
                  numberingStartFromPageIndex, numberingSide, status,
                  processedFileUrl, previewInfo, currentPage >>

setNumberingSide(side) ==
  /\ Edit /\ enablePageNumbering /\ side # numberingSide
  /\ numberingSide' = side
  /\ UNCHANGED << runs, file, splitMode, splitRatio, evenSplitRatio,
                  useDualRatios, enablePageNumbering, startingPageNumber,
                  numberingStartFromPageIndex, status, processedFileUrl,
                  previewInfo, currentPage >>

\* the text of a number input, and parseInt of it (<< >> is NaN)
NumberInputs == { "", "0", "3", "-2" }
parseInt(text) ==
  CASE text = "" -> << >>
    [] text = "0" -> << 0 >>
    [] text = "3" -> << 3 >>
    [] text = "-2" -> << 0 - 2 >>
\* parseInt(text) || 1
parseIntOr1(text) ==
  IF parseInt(text) = << >> \/ parseInt(text) = << 0 >> THEN 1 ELSE parseInt(text)[1]
Max(a, b) == IF a >= b THEN a ELSE b

setStartingPageNumber(text) ==
  /\ Edit /\ enablePageNumbering /\ parseIntOr1(text) # startingPageNumber
  /\ startingPageNumber' = parseIntOr1(text)
  /\ UNCHANGED << runs, file, splitMode, splitRatio, evenSplitRatio,
                  useDualRatios, enablePageNumbering,
                  numberingStartFromPageIndex, numberingSide, status,
                  processedFileUrl, previewInfo, currentPage >>

setNumberingStartFromPageIndex(text) ==
  /\ Edit /\ enablePageNumbering
  /\ Max(0, parseIntOr1(text) - 1) # numberingStartFromPageIndex
  /\ numberingStartFromPageIndex' = Max(0, parseIntOr1(text) - 1)
  /\ UNCHANGED << runs, file, splitMode, splitRatio, evenSplitRatio,
                  useDualRatios, enablePageNumbering, startingPageNumber,
                  numberingSide, status, processedFileUrl, previewInfo,
                  currentPage >>

\* the options object handleProcess builds from the settings
BuildOptions ==
  [ orientation |-> splitMode,
    splitRatio |-> splitRatio,
    evenSplitRatio |-> << evenSplitRatio >>,
    useDualRatios |-> useDualRatios,
    mergeToSingleFile |-> TRUE,
    enablePageNumbering |-> enablePageNumbering,
    startingPageNumber |-> startingPageNumber,
    numberingStartFromPageIndex |-> numberingStartFromPageIndex,
    numberingSide |-> numberingSide ]

\* handleProcess up to its await: the process button is rendered while a
\* file is selected and no download is offered, and is disabled while the
\* status is 'processing'.  id is the first slot that holds no invocation in
\* flight; at most MaxRuns invocations are in flight at a time.
InFlight(r) == r.pc \in { "load", "font", "page", "save" }
handleProcess(id) ==
  /\ file # NoFile
  /\ ~ShowsDownload
  /\ status.step # "processing"
  /\ ~InFlight(runs[id])
  /\ \A other \in RunIds : other < id => InFlight(runs[other])
  /\ status' = ProcessingStatus
  /\ runs' = [runs EXCEPT ![id] = CallSplit(file, BuildOptions)]
  /\ UNCHANGED << file, configVars, processedFileUrl, previewInfo, currentPage,
                  previewVars >>

\* the callback handleProcess passes as onProgress:
\* setStatus(prev => ({...prev, progress, message}))
OnProgressStatus(prev, progress) ==
  [ prev EXCEPT !.progress = progress,
                !.message = << "progress", MathRound(progress) >> ]

CatchStatus_KeepProgress(prev) == [ prev EXCEPT !.step = "error", !.message = << "failed" >> ]

\* the catch block of handleProcess
CatchStatus(prev) == ErrorStatus

\* the rejection of the awaited splitA3ToA4 reaches the catch block
Caught ==
  /\ status' = CatchStatus(status)
  /\ UNCHANGED << file, configVars, processedFileUrl, previewInfo, currentPage,
                  previewVars >>

\* URL.createObjectURL of the blob of the bytes an invocation returned: what
\* the link downloads
UrlOf(r) == [source |-> r.file.name, pages |-> Len(r.outPdf)]

\* handleProcess has ended: its locals and those of the splitter are gone;
\* the slot keeps how the invocation ended
Ended(r) == [ NoRun EXCEPT !.pc = r.pc, !.err = r.err ]

\* a step of the splitter that throws, and the catch block it reaches
ProcThrows(id, thrown) ==
  /\ runs' = [runs EXCEPT ![id] = Ended(thrown)]
  /\ Caught

ProcLoad(id) ==
  /\ runs[id].pc = "load"
  /\ IF LoadParses(runs[id].file)
     THEN SplitLoad(id) /\ UNCHANGED appVars
     ELSE ProcThrows(id, AfterLoad(runs[id]))

ProcEmbedFont(id) == SplitEmbedFont(id) /\ UNCHANGED appVars

ProcEmbedFontThrows(id) ==
  /\ runs[id].pc = "font"
  /\ ProcThrows(id, Throw(runs[id], "font"))

ProcPage(id) ==
  /\ SplitPage(id)
  /\ status' = OnProgressStatus(status, ProgressValue(runs[id].i, runs[id].totalPages))
  /\ UNCHANGED << file, configVars, processedFileUrl, previewInfo, currentPage,
                  previewVars >>

ProcPageThrows(id) ==
  /\ runs[id].pc = "page"
  /\ ProcThrows(id, Throw(runs[id], "copy"))

\* the bytes are returned: blob, object URL, 'completed'
ProcSave(id) ==
  /\ runs[id].pc = "save"
  /\ runs' = [runs EXCEPT ![id] = Ended(AfterSave(runs[id]))]
  /\ processedFileUrl' = UrlOf(runs[id])
  /\ status' = CompletedStatus
  /\ UNCHANGED << file, configVars, previewInfo, currentPage, previewVars >>

ProcSaveThrows(id) ==
  /\ runs[id].pc = "save"
  /\ ProcThrows(id, Throw(runs[id], "save"))

Init ==
  /\ AppInit
  /\ runs = [id \in RunIds |-> NoRun]

Next ==
  \/ \E f \in AppFiles : handleFileChange(f)
  \/ RemoveFile
  \/ ProcessNextFile
  \/ \E m \in Orientations : setSplitMode(m)
  \/ toggleUseDualRatios
  \/ \E v \in SliderValues : setSplitRatio(v)
  \/ \E v \in SliderValues : setEvenSplitRatio(v)
  \/ toggleEnablePageNumbering
  \/ \E side \in NumberingSides : setNumberingSide(side)
  \/ \E text \in NumberInputs : setStartingPageNumber(text)
  \/ \E text \in NumberInputs : setNumberingStartFromPageIndex(text)
  \/ \E id \in RunIds :
       \/ handleProcess(id)
       \/ ProcLoad(id)
       \/ ProcEmbedFont(id)
       \/ ProcEmbedFontThrows(id)
       \/ ProcPage(id)
       \/ ProcPageThrows(id)
       \/ ProcSave(id)
       \/ ProcSaveThrows(id)

Spec == Init /\ [][Next]_vars

\* ------------------------------------------------ App, preview computation
\* The render-time values of the App, as functions of the state they read;
\* a label is << >> for null and << n >> for the number n.
isCurrentPageEven_OneOff(page) == page % 2 = 1

isCurrentPageEvenOf(page) == page % 2 = 0

currentActiveRatioOf(dual, even, split, page) ==
  IF dual /\ isCurrentPageEvenOf(page) THEN even ELSE split

\* the style of the split line: left (vertical) or top (horizontal), in percent
SplitLinePercent(ratio) == ratio

getSimulatedPageNumbers_AlwaysTwo(enable, start, startIndex, side, page) ==
  IF ~enable \/ (page - 1) < startIndex
  THEN [ p1 |-> << >>, p2 |-> << >> ]
  ELSE LET count == start + Max(0, (page - 1) - startIndex) * 2
       IN [ p1 |-> IF side = "both" \/ side = "first" THEN << count >> ELSE << >>,
            p2 |-> IF side = "both" THEN << count + 1 >>
                   ELSE IF side = "second" THEN << count >> ELSE << >> ]

getSimulatedPageNumbersOf(enable, start, startIndex, side, page) ==
  IF ~enable \/ (page - 1) < startIndex
  THEN [ p1 |-> << >>, p2 |-> << >> ]
  ELSE LET partsPerA3 == IF side = "both" THEN 2 ELSE 1
           skippedA3Pages == startIndex
           currentA3PageIndex == page - 1
           previousNumberedA3Pages == Max(0, currentA3PageIndex - skippedA3Pages)
           count == start + previousNumberedA3Pages * partsPerA3
       IN [ p1 |-> IF side = "both" \/ side = "first" THEN << count >> ELSE << >>,
            p2 |-> IF side = "both" THEN << count + 1 >>
                   ELSE IF side = "second" THEN << count >> ELSE << >> ]

isVerticalSplitOf(mode, info) ==
  IF mode = "auto"
  THEN (IF info # NoPreviewInfo THEN info[1] > info[2] ELSE TRUE)
  ELSE mode = "vertical"

\* the values of the current render
isVerticalSplit == isVerticalSplitOf(splitMode, previewInfo)
isCurrentPageEven == isCurrentPageEvenOf(currentPage)
currentActiveRatio == currentActiveRatioOf(useDualRatios, evenSplitRatio, splitRatio, currentPage)
getSimulatedPageNumbers ==
  getSimulatedPageNumbersOf(enablePageNumbering, startingPageNumber,
                            numberingStartFromPageIndex, numberingSide, currentPage)

\* ------------------------------------------------ App, the preview effect
\* useEffect(..., [file, currentPage]) and the renderPreview it starts.  React
\* runs the effect after the commit in which a dependency changed and before
\* the next event is handled: while effectPending holds, only the effect runs.
\* This specification leaves the processing (handleProcess) aside: the effect
\* reads file and currentPage only, and handleProcess writes neither.
PreviewFiles == AppFiles \cup { PdfFile("b", << <<1000, 700>> >>) }

Min(a, b) == IF a <= b THEN a ELSE b

FreeRender(r) == r.pc \in { "idle", "done" }
RenderInFlight(r) == ~FreeRender(r)
\* at most MaxRenders invocations of renderPreview are in flight at a time
SlotFree == \E id \in RenderIds : FreeRender(renders[id])

SelectFile(f) == ~effectPending /\ SlotFree /\ handleFileChange(f)

PreviewRemoveFile == ~effectPending /\ RemoveFile

PreviewSetSplitMode(m) == ~effectPending /\ setSplitMode(m)

\* the page navigation is rendered while file && totalPages > 1
NavShown == file # NoFile /\ totalPages > 1

goToPrevPage ==
  /\ ~effectPending /\ SlotFree /\ NavShown
  /\ ~(currentPage <= 1 \/ previewLoading)
  /\ currentPage' = Max(1, currentPage - 1)
  /\ effectPending' = TRUE
  /\ UNCHANGED << runs, file, configVars, status, processedFileUrl, previewInfo,
                  totalPages, previewLoading, renders, canvas >>

goToNextPage ==
  /\ ~effectPending /\ SlotFree /\ NavShown
  /\ ~(currentPage >= totalPages \/ previewLoading)
  /\ currentPage' = Min(totalPages, currentPage + 1)
  /\ effectPending' = TRUE
  /\ UNCHANGED << runs, file, configVars, status, processedFileUrl, previewInfo,
                  totalPages, previewLoading, renders, canvas >>

\* the cleanup function of the effect: isMounted = false and
\* renderTask.cancel(), which does nothing to a task that has finished
Cleanup(r) ==
  IF r.isMounted
  THEN [ r EXCEPT !.isMounted = FALSE,
                  !.renderTask = IF @ = "running" THEN "cancelled" ELSE @ ]
  ELSE r

\* renderPreview() up to its first await
StartRender ==
  [ NoRender EXCEPT !.pc = "load", !.file = file, !.page = currentPage,
                    !.isMounted = TRUE ]

PreviewEffect ==
  /\ effectPending
  /\ effectPending' = FALSE
  /\ LET cleaned == [id \in RenderIds |-> Cleanup(renders[id])]
     IN IF file = NoFile
        THEN renders' = cleaned /\ UNCHANGED previewLoading
        ELSE /\ \E id \in RenderIds :
                  /\ FreeRender(cleaned[id])
                  /\ \A other \in RenderIds : other < id => ~FreeRender(cleaned[other])
                  /\ renders' = [cleaned EXCEPT ![id] = StartRender]
             /\ previewLoading' = TRUE
  /\ UNCHANGED << runs, file, configVars, status, processedFileUrl, previewInfo,
                  currentPage, totalPages, canvas >>

isMounted_Always(r) == TRUE

\* the isMounted an invocation reads after an await
isMountedOf(r) == r.isMounted

\* err.name !== 'RenderingCancelledException'
ReportsError(err) == err # "cancelled"

\* renderPreview has returned: its locals are gone; the slot keeps how it ended
EndedRender(r, err) ==
  [ NoRender EXCEPT !.pc = "done", !.isMounted = r.isMounted, !.err = err,
                    !.logged = (err # "none" /\ ReportsError(err)) ]

\* the finally block
Finally(r) == previewLoading' = IF isMountedOf(r) THEN FALSE ELSE previewLoading

\* a step of an invocation runs in a task of its own, after the effect
RenderStep(id, at) == ~effectPending /\ renders[id].pc = at

\* file.arrayBuffer() and getDocument(...).promise resolve
PreviewLoadResolves(id) ==
  LET r == renders[id]
      numPages == Len(r.file.pages)
  IN /\ RenderStep(id, "load")
     /\ r.file.valid
     /\ IF ~isMountedOf(r)
        THEN /\ renders' = [renders EXCEPT ![id] = EndedRender(r, "none")]
             /\ Finally(r)
             /\ UNCHANGED totalPages
        ELSE /\ totalPages' = numPages
             /\ renders' = [renders EXCEPT ![id] =
                              [ r EXCEPT !.pc = "getPage",
                                         !.pageToLoad = Min(Max(1, r.page), numPages) ]]
             /\ UNCHANGED previewLoading
     /\ UNCHANGED << runs, file, configVars, status, processedFileUrl, previewInfo,
                     currentPage, effectPending, canvas >>

\* getDocument rejects: the bytes are no PDF, pdf.js refuses the document, or
\* its worker (fetched from a CDN) is not available
PreviewLoadRejects(id) ==
  LET r == renders[id]
  IN /\ RenderStep(id, "load")
     /\ renders' = [renders EXCEPT ![id] = EndedRender(r, "load")]
     /\ Finally(r)
     /\ UNCHANGED << runs, file, configVars, status, processedFileUrl, previewInfo,
                     currentPage, totalPages, effectPending, canvas >>

\* pdf.getPage(pageToLoad) resolves
PreviewGetPage(id) ==
  LET r == renders[id]
  IN /\ RenderStep(id, "getPage")
     /\ previewInfo' = IF isMountedOf(r) THEN r.file.pages[r.pageToLoad] ELSE previewInfo
     /\ renders' = [renders EXCEPT ![id].pc = "timeout"]
     /\ UNCHANGED << runs, file, configVars, status, processedFileUrl, currentPage,
                     totalPages, previewLoading, effectPending, canvas >>

\* the 50 ms timeout fires; the canvas is in the document while a file is selected
PreviewTimeout(id) ==
  LET r == renders[id]
  IN /\ RenderStep(id, "timeout")
     /\ IF file # NoFile /\ isMountedOf(r)
        THEN /\ canvas' = [ file |-> r.file.name, page |-> r.pageToLoad, drawn |-> FALSE ]
             /\ renders' = [renders EXCEPT ![id] =
                              [ r EXCEPT !.pc = "render", !.renderTask = "running" ]]
             /\ UNCHANGED previewLoading
        ELSE /\ renders' = [renders EXCEPT ![id] = EndedRender(r, "none")]
             /\ Finally(r)
             /\ UNCHANGED canvas
     /\ UNCHANGED << runs, file, configVars, status, processedFileUrl, previewInfo,
                     currentPage, totalPages, effectPending >>

\* renderTask.promise resolves: the page has been drawn
PreviewRenderResolves(id) ==
  LET r == renders[id]
  IN /\ RenderStep(id, "render")
     /\ r.renderTask = "running"
     /\ canvas' = [ file |-> r.file.name, page |-> r.pageToLoad, drawn |-> TRUE ]
     /\ renders' = [renders EXCEPT ![id] = EndedRender(r, "none")]
     /\ Finally(r)
     /\ UNCHANGED << runs, file, configVars, status, processedFileUrl, previewInfo,
                     currentPage, totalPages, effectPending >>

\* renderTask.promise rejects with RenderingCancelledException
PreviewRenderCancelled(id) ==
  LET r == renders[id]
  IN /\ RenderStep(id, "render")
     /\ r.renderTask = "cancelled"
     /\ renders' = [renders EXCEPT ![id] = EndedRender(r, "cancelled")]
     /\ Finally(r)
     /\ UNCHANGED << runs, file, configVars, status, processedFileUrl, previewInfo,
                     currentPage, totalPages, effectPending, canvas >>

PreviewNext ==
  \/ \E f \in PreviewFiles : SelectFile(f)
  \/ PreviewRemoveFile
  \/ \E m \in Orientations : PreviewSetSplitMode(m)
  \/ goToPrevPage
  \/ goToNextPage
  \/ PreviewEffect
  \/ \E id \in RenderIds :
       \/ PreviewLoadResolves(id)
       \/ PreviewLoadRejects(id)
       \/ PreviewGetPage(id)
       \/ PreviewTimeout(id)
       \/ PreviewRenderResolves(id)
       \/ PreviewRenderCancelled(id)

PreviewSpec == Init /\ [][PreviewNext]_vars

\* ================================================================ claims
\* helpers of the claims
InLoop(r) == r.pc \in { "page", "save", "returned" } \/ (r.pc = "threw" /\ r.err \in { "copy", "save" })
Stamped(p) == p.text # << >>
StampedHalves(r) == SelectSeq(r.outPdf, Stamped)
SourceWidth(r, k) == r.file.pages[((k - 1) \div 2) + 1][1]
SourceHeight(r, k) == r.file.pages[((k - 1) \div 2) + 1][2]
IsFirstHalf(k) == k % 2 = 1

\* C1: a successful run on n source pages has appended exactly 2n pages, and
\* output pages 2i and 2i+1 (zero-based) are the first and the second half of
\* source page i; while the loop runs, 2 pages per processed source page.
C1_TwoPagesPerSourcePage ==
  \A id \in RunIds :
    LET r == runs[id] IN
    /\ InLoop(r) => Len(r.outPdf) = 2 * r.i
    /\ r.pc = "returned" => Len(r.outPdf) = 2 * Len(r.file.pages)
    /\ \A k \in 1 .. Len(r.outPdf) :
         LET i == (k - 1) \div 2
             w == SourceWidth(r, k)
             h == SourceHeight(r, k)
             v == useVerticalSplit(r.options, w, h)
             ratio == currentRatio(r.options, i)
         IN /\ r.outPdf[k].source = i
            /\ r.outPdf[k].cropBox = IF IsFirstHalf(k) THEN FirstCropBox(v, w, h, ratio)
                                     ELSE SecondCropBox(v, w, h, ratio)

C1_Witness ==
  \E id \in RunIds :
    /\ runs[id].pc = "returned"
    /\ Len(runs[id].file.pages) = 3
    /\ Len(runs[id].outPdf) = 6
    /\ runs[id].options.splitRatio = 30

\* C2: the counter starts at startingPageNumber and grows by one per stamped
\* half: the j-th stamped half in output order carries startingPageNumber+j-1,
\* the counter is startingPageNumber plus the number of stamped halves, and
\* when both halves of a page are stamped the first carries the lower number.
C2_CounterSequence ==
  \A id \in RunIds :
    LET r == runs[id]
        st == StampedHalves(r)
        start == r.options.startingPageNumber
    IN InLoop(r) =>
         /\ r.pageNumberCounter = start + Len(st)
         /\ \A j \in 1 .. Len(st) : st[j].text = << NumToText(start + j - 1) >>
         /\ \A k \in 1 .. Len(r.outPdf) :
              (IsFirstHalf(k) /\ k < Len(r.outPdf) /\ Stamped(r.outPdf[k]) /\ Stamped(r.outPdf[k + 1]))
                => \E n \in start .. start + Len(st) :
                     /\ r.outPdf[k].text = << NumToText(n) >>
                     /\ r.outPdf[k + 1].text = << NumToText(n + 1) >>
         /\ ( /\ r.pc = "returned" /\ start = 5 /\ r.options.enablePageNumbering
              /\ r.options.numberingStartFromPageIndex = 0
              /\ r.options.numberingSide = "both" /\ Len(r.file.pages) = 3 )
              => [k \in 1 .. 6 |-> r.outPdf[k].text[1]]
                   = << <<"5">>, <<"6">>, <<"7">>, <<"8">>, <<"9">>, <<"1", "0">> >>

C2_Witness ==
  \E id \in RunIds :
    LET r == runs[id] IN
    /\ r.pc = "returned" /\ r.options.startingPageNumber = 5
    /\ r.options.enablePageNumbering /\ r.options.numberingStartFromPageIndex = 0
    /\ r.options.numberingSide = "both" /\ Len(r.file.pages) = 3
    /\ r.pageNumberCounter = 11

\* C3: a half of source page i is stamped iff numbering is enabled, i is at
\* or after numberingStartFromPageIndex, and numberingSide selects that half;
\* the counter has advanced once per stamped half and not otherwise.
C3_StampedIff ==
  \A id \in RunIds :
    LET r == runs[id] IN
    /\ \A k \in 1 .. Len(r.outPdf) :
         Stamped(r.outPdf[k]) <=>
           /\ r.options.enablePageNumbering
           /\ (k - 1) \div 2 >= r.options.numberingStartFromPageIndex
           /\ IF IsFirstHalf(k) THEN r.options.numberingSide \in { "both", "first" }
              ELSE r.options.numberingSide \in { "both", "second" }
    /\ InLoop(r) =>
         r.pageNumberCounter - r.options.startingPageNumber
           = Cardinality({ k \in 1 .. Len(r.outPdf) : Stamped(r.outPdf[k]) })

C3_Witness ==
  \E id \in RunIds :
    LET r == runs[id] IN
    /\ r.pc = "returned" /\ r.options.enablePageNumbering
    /\ r.options.numberingStartFromPageIndex = 1 /\ r.options.numberingSide = "second"
    /\ Len(r.outPdf) = 6
    /\ ~Stamped(r.outPdf[2]) /\ ~Stamped(r.outPdf[3]) /\ Stamped(r.outPdf[4])

\* C4: the two crop rectangles of a source page have no interior overlap and
\* their union is exactly the page rectangle [0, 0, w, h]: both are proper
\* rectangles inside the page, they do not overlap, and they are the two
\* sides of one cut across the whole page.
RectInside(b, w, h) ==
  /\ b[1] >= 0 /\ b[2] >= 0 /\ b[3] > 0 /\ b[4] > 0
  /\ b[1] + b[3] <= w /\ b[2] + b[4] <= h
RectsDisjoint(a, b) ==
  \/ a[1] + a[3] <= b[1] \/ b[1] + b[3] <= a[1]
  \/ a[2] + a[4] <= b[2] \/ b[2] + b[4] <= a[2]
SideBySide(a, b, w, h) ==
  /\ a[2] = 0 /\ a[4] = h /\ b[2] = 0 /\ b[4] = h
  /\ a[1] = 0 /\ a[1] + a[3] = b[1] /\ b[1] + b[3] = w
Stacked(a, b, w, h) ==
  /\ a[1] = 0 /\ a[3] = w /\ b[1] = 0 /\ b[3] = w
  /\ a[2] = 0 /\ a[2] + a[4] = b[2] /\ b[2] + b[4] = h
RectsCover(a, b, w, h) ==
  \/ SideBySide(a, b, w, h) \/ SideBySide(b, a, w, h)
  \/ Stacked(a, b, w, h) \/ Stacked(b, a, w, h)
C4_DisjointCover ==
  \A id \in RunIds :
    LET r == runs[id] IN
    \A k \in 1 .. Len(r.outPdf) :
      (IsFirstHalf(k) /\ k < Len(r.outPdf)) =>
        LET a == r.outPdf[k].cropBox
            b == r.outPdf[k + 1].cropBox
            w == SourceWidth(r, k) * 100
            h == SourceHeight(r, k) * 100
        IN /\ RectInside(a, w, h) /\ RectInside(b, w, h)
           /\ RectsDisjoint(a, b)
           /\ RectsCover(a, b, w, h)

C4_Witness ==
  \E id \in RunIds :
    LET r == runs[id] IN
    /\ Len(r.outPdf) >= 4
    /\ r.outPdf[1].cropBox[3] = 30000 /\ r.outPdf[2].cropBox[1] = 30000
    /\ r.outPdf[3].cropBox[2] > 0

\* C5: the crop rectangles are, for a w x h page at ratio r: vertical
\* first [0,0,w*r,h], second [w*r,0,w*(1-r),h]; horizontal first
\* [0,h*(1-r),w,h*r] (upper), second [0,0,w,h*(1-r)] (lower).
C5_CropRectangles ==
  \A id \in RunIds :
    LET r == runs[id] IN
    \A k \in 1 .. Len(r.outPdf) :
      LET w == SourceWidth(r, k)
          h == SourceHeight(r, k)
          ratio == currentRatio(r.options, (k - 1) \div 2)
          box == r.outPdf[k].cropBox
      IN /\ IF useVerticalSplit(r.options, w, h)
            THEN IF IsFirstHalf(k)
                 THEN box = << 0, 0, w * ratio, h * 100 >>
                 ELSE box = << w * ratio, 0, w * (100 - ratio), h * 100 >>
            ELSE IF IsFirstHalf(k)
                 THEN box = << 0, h * (100 - ratio), w * 100, h * ratio >>
                 ELSE box = << 0, 0, w * 100, h * (100 - ratio) >>
         /\ (w = 1000 /\ h = 700 /\ r.options.orientation = "auto" /\ ratio = 50) =>
              box = IF IsFirstHalf(k) THEN << 0, 0, 50000, 70000 >>
                    ELSE << 50000, 0, 50000, 70000 >>

C5_Witness ==
  \E id \in RunIds :
    LET r == runs[id] IN
    /\ Len(r.outPdf) >= 4
    /\ r.options.orientation = "auto"
    /\ r.file.pages[1] = << 1000, 700 >>
    /\ r.outPdf[1].cropBox = << 0, 0, 50000, 70000 >>
    /\ r.outPdf[2].cropBox = << 50000, 0, 50000, 70000 >>
    /\ r.file.pages[2] = << 700, 1000 >>
    /\ r.outPdf[3].cropBox = << 0, 70000, 70000, 30000 >>

\* C6: source page i is cut at evenSplitRatio exactly when useDualRatios is
\* on, i is odd and evenSplitRatio is set; otherwise at splitRatio.
RatioOfCrop(r, k) ==
  LET first == r.outPdf[IF IsFirstHalf(k) THEN k ELSE k - 1].cropBox
      second == r.outPdf[IF IsFirstHalf(k) THEN k + 1 ELSE k].cropBox
  IN IF second[1] > 0 THEN first[3] \div SourceWidth(r, k)
     ELSE first[4] \div SourceHeight(r, k)
C6_ActiveRatio ==
  \A id \in RunIds :
    LET r == runs[id] IN
    \A k \in 1 .. Len(r.outPdf) :
      LET i == (k - 1) \div 2
          useEven == /\ r.options.useDualRatios
                     /\ i % 2 = 1
                     /\ r.options.evenSplitRatio # Undefined
      IN (k % 2 = 0) =>
           RatioOfCrop(r, k) = IF useEven THEN r.options.evenSplitRatio[1]
                               ELSE r.options.splitRatio

C6_Witness ==
  \E id \in RunIds :
    LET r == runs[id] IN
    /\ r.options.useDualRatios /\ r.options.splitRatio = 50
    /\ r.options.evenSplitRatio = << 30 >>
    /\ Len(r.outPdf) >= 4
    /\ RatioOfCrop(r, 2) = 50 /\ RatioOfCrop(r, 4) = 30

\* C7: the split is vertical iff orientation is vertical, or orientation is
\* auto and the page is strictly wider than high (a square page under auto
\* is split horizontally).
IsVerticalCrop(r, k) == r.outPdf[k + 1].cropBox[1] > 0 /\ r.outPdf[k].cropBox[4] = SourceHeight(r, k) * 100
IsHorizontalCrop(r, k) == r.outPdf[k].cropBox[2] > 0 /\ r.outPdf[k].cropBox[3] = SourceWidth(r, k) * 100
C7_SplitAxis ==
  \A id \in RunIds :
    LET r == runs[id] IN
    \A k \in 1 .. Len(r.outPdf) :
      (IsFirstHalf(k) /\ k < Len(r.outPdf)) =>
        LET wantVertical ==
              \/ r.options.orientation = "vertical"
              \/ r.options.orientation = "auto" /\ SourceWidth(r, k) > SourceHeight(r, k)
        IN /\ IsVerticalCrop(r, k) <=> wantVertical
           /\ IsHorizontalCrop(r, k) <=> ~wantVertical

C7_Witness ==
  \E id \in RunIds :
    LET r == runs[id] IN
    /\ r.options.orientation = "auto" /\ Len(r.outPdf) >= 4
    /\ r.file.pages[1] = << 800, 800 >> /\ IsHorizontalCrop(r, 1)
    /\ r.file.pages[2] = << 1000, 700 >> /\ IsVerticalCrop(r, 3)

\* C8: the progress callback is invoked once per source page, after both
\* halves of that page were appended, with (pages so far / n) * 100; the
\* values strictly increase, lie in (0, 100], and the last one is 100.
C8_Progress ==
  \A id \in RunIds :
    LET r == runs[id]
        n == Len(r.file.pages)
    IN /\ InLoop(r) => Len(r.progress) = r.i
       /\ ~InLoop(r) => r.progress = << >>
       /\ r.pc = "returned" => Len(r.progress) = n
       /\ \A k \in 1 .. Len(r.progress) :
            /\ RatEq(r.progress[k].value, << k * 100, n >>)
            /\ r.progress[k].appended = 2 * k
            /\ RatLess(Zero, r.progress[k].value)
            /\ ~RatLess(Hundred, r.progress[k].value)
            /\ k > 1 => RatLess(r.progress[k - 1].value, r.progress[k].value)
       /\ (r.pc = "returned" /\ n > 0) => RatEq(r.progress[n].value, Hundred)

C8_Witness ==
  \E id \in RunIds :
    /\ runs[id].pc = "returned"
    /\ Len(runs[id].progress) = 3
    /\ RatEq(runs[id].progress[3].value, Hundred)
    /\ RatLess(runs[id].progress[1].value, runs[id].progress[2].value)

\* C9: on bytes that do not parse the invocation fails at the load, with no
\* output page created or appended and no progress callback made.
C9_ParseFailureFirst ==
  \A id \in RunIds :
    LET r == runs[id] IN
    (r.pc \notin { "idle", "load" } /\ ~r.file.valid) =>
      /\ r.pc = "threw" /\ r.err = "parse"
      /\ r.outPdf = << >> /\ r.progress = << >>

C9_Witness ==
  \E id \in RunIds :
    /\ runs[id].pc = "threw" /\ runs[id].err = "parse"
    /\ ~runs[id].file.valid

\* C10: a failure of any kind inside an invocation (parse, font, a page,
\* save) ends it without bytes and without a retry: in the step in which it
\* throws, handleProcess leaves processedFileUrl alone and sets the status to
\* the one error status (step 'error', progress 0, the generic message), no
\* invocation is started, and an invocation that threw never resumes.
C10_FailureAborts ==
  [][ \A id \in RunIds :
        /\ (InFlight(runs[id]) /\ runs'[id].pc = "threw") =>
             /\ status' = ErrorStatus
             /\ RatEq(status'.progress, Zero)
             /\ processedFileUrl' = processedFileUrl
             /\ \A other \in RunIds : runs'[other].pc = "load" => runs[other].pc = "load"
        /\ runs[id].pc = "threw" =>
             \/ runs'[id] = runs[id]
             \/ /\ runs'[id] = CallSplit(file, BuildOptions)
                /\ status' = ProcessingStatus ]_vars

C10_Witness ==
  \E id \in RunIds :
    /\ runs[id].pc = "threw" /\ runs[id].err = "copy"
    /\ status = ErrorStatus
    /\ processedFileUrl = NoUrl

\* C11: for every configuration and displayed page p+1, the preview labels
\* (p1, p2) are the numbers the splitter stamps on the first and the second
\* half of source page p, null where it stamps nothing; they are seeded from
\* startingPageNumber + max(0, p - numberingStartFromPageIndex) * (2 | 1).
LabelText(label) == IF label = << >> THEN << >> ELSE << NumToText(label[1]) >>
C11_PreviewNumbers ==
  \A id \in RunIds :
    LET r == runs[id]
        o == r.options
    IN \A k \in 1 .. Len(r.outPdf) :
         LET p == (k - 1) \div 2
             sim == getSimulatedPageNumbersOf(o.enablePageNumbering, o.startingPageNumber,
                                              o.numberingStartFromPageIndex,
                                              o.numberingSide, p + 1)
             seed == o.startingPageNumber
                       + (IF p > o.numberingStartFromPageIndex
                          THEN p - o.numberingStartFromPageIndex ELSE 0)
                         * (IF o.numberingSide = "both" THEN 2 ELSE 1)
         IN /\ r.outPdf[k].text = LabelText(IF IsFirstHalf(k) THEN sim.p1 ELSE sim.p2)
            /\ (~o.enablePageNumbering \/ p < o.numberingStartFromPageIndex)
                 => sim = [ p1 |-> << >>, p2 |-> << >> ]
            /\ (o.enablePageNumbering /\ p >= o.numberingStartFromPageIndex)
                 => \/ o.numberingSide = "both" /\ sim = [ p1 |-> << seed >>, p2 |-> << seed + 1 >> ]
                    \/ o.numberingSide = "first" /\ sim = [ p1 |-> << seed >>, p2 |-> << >> ]
                    \/ o.numberingSide = "second" /\ sim = [ p1 |-> << >>, p2 |-> << seed >> ]

C11_Witness ==
  \E id \in RunIds :
    LET r == runs[id]
        o == r.options
    IN /\ r.pc = "returned" /\ Len(r.outPdf) = 6
       /\ o.enablePageNumbering /\ o.numberingSide = "first"
       /\ o.numberingStartFromPageIndex = 1 /\ o.startingPageNumber = 5
       /\ r.outPdf[5].text = << << "6" >> >>
       /\ getSimulatedPageNumbersOf(TRUE, 5, 1, "first", 3) = [ p1 |-> << 6 >>, p2 |-> << >> ]

\* C12: for a configuration the App builds (evenSplitRatio is always set) and
\* displayed page p+1, the preview's parity flag and active ratio are the
\* splitter's isEvenPage and currentRatio of source page p, and the split line
\* lies on the boundary of the two crop rectangles: the fraction r from the
\* left edge (vertical split) or from the top edge (horizontal split).
C12_PreviewRatio ==
  \A id \in RunIds :
    LET r == runs[id]
        o == r.options
    IN o.evenSplitRatio # Undefined =>
         \A k \in 1 .. Len(r.outPdf) :
           (IsFirstHalf(k) /\ k < Len(r.outPdf)) =>
             LET p == (k - 1) \div 2
                 w == SourceWidth(r, k)
                 h == SourceHeight(r, k)
                 ratio == currentActiveRatioOf(o.useDualRatios, o.evenSplitRatio[1],
                                               o.splitRatio, p + 1)
                 line == SplitLinePercent(ratio)
                 first == r.outPdf[k].cropBox
                 second == r.outPdf[k + 1].cropBox
             IN /\ isCurrentPageEvenOf(p + 1) <=> isEvenPage(p)
                /\ ratio = RatioOfCrop(r, k)
                /\ IF second[1] > 0
                   THEN first[1] + first[3] = w * line /\ second[1] = w * line
                   ELSE first[2] = h * 100 - h * line /\ second[2] + second[4] = h * 100 - h * line

C12_Witness ==
  \E id \in RunIds :
    LET r == runs[id]
        o == r.options
    IN /\ o.useDualRatios /\ o.evenSplitRatio = << 30 >> /\ o.splitRatio = 50
       /\ o.orientation = "horizontal"
       /\ Len(r.outPdf) >= 4
       /\ currentActiveRatioOf(TRUE, 30, 50, 2) = 30
       /\ r.outPdf[3].cropBox[2] = SourceHeight(r, 3) * 70

\* C16: whatever is typed into the two numbering inputs, the configuration
\* handed to splitA3ToA4 has startingPageNumber >= 1 and
\* numberingStartFromPageIndex >= 0.
C16_NumberingInputsInRange ==
  \A id \in RunIds :
    InFlight(runs[id]) =>
      /\ runs[id].options.startingPageNumber >= 1
      /\ runs[id].options.numberingStartFromPageIndex >= 0

\* C17: a download that is offered while a file is selected was produced from
\* that file, and an invocation that outlives the removal of its file changes
\* neither processedFileUrl nor the reset status.
C17_ResultOfCurrentFile ==
  /\ (file # NoFile /\ status.step = "completed" /\ processedFileUrl # NoUrl)
       => processedFileUrl.source = file.name
  /\ file = NoFile =>
       /\ processedFileUrl = NoUrl
       /\ status.step # "completed"
       /\ status.step = "idle" => status.progress[1] = 0

\* C13: in every state in which the overlay is displayed (a file is selected
\* and previewLoading is false; here, moreover, the preview effect has run and
\* the displayed page exists in the file), isVerticalSplit is the axis the
\* splitter uses for the displayed page under the current orientation.
OverlayShown == file # NoFile /\ ~previewLoading
C13_OverlayAxis ==
  (OverlayShown /\ ~effectPending /\ file.valid /\ currentPage \in 1 .. Len(file.pages))
    => LET size == file.pages[currentPage]
       IN isVerticalSplit <=> useVerticalSplit(BuildOptions, size[1], size[2])

\* C14: a step of a renderPreview invocation that has been superseded writes
\* none of totalPages, previewInfo, previewLoading and the canvas; superseding
\* an invocation cancels its running render task, and an invocation that ends
\* with RenderingCancelledException reports no error.
Superseded(r) == RenderInFlight(r) /\ ~r.isMounted
C14_SupersededWritesNothing ==
  [][\A id \in RenderIds :
       /\ (Superseded(renders[id]) /\ renders'[id] # renders[id])
            => UNCHANGED << totalPages, previewInfo, previewLoading, canvas >>
       /\ (renders[id].isMounted /\ ~renders'[id].isMounted
             /\ renders[id].renderTask = "running")
            => renders'[id].renderTask = "cancelled"
       /\ renders'[id].err = "cancelled" => ~renders'[id].logged]_vars

C14_Witness ==
  \E id, newer \in RenderIds :
    /\ renders[id].pc = "done" /\ renders[id].err = "cancelled"
    /\ ~renders[id].isMounted /\ ~renders[id].logged
    /\ renders[newer].isMounted /\ renders[newer].pc = "getPage"
    /\ totalPages = 1 /\ previewLoading

\* C15: while a file (with a page count) is selected,
\* 1 <= currentPage <= the number of pages of that file.
C15_CurrentPageInRange ==
  (file # NoFile /\ file.valid) => (1 <= currentPage /\ currentPage <= Len(file.pages))

\* C18: whenever no renderPreview invocation of the current effect is in
\* flight (each one started has completed, failed or been superseded),
\* previewLoading is false.
C18_LoadingOnlyWhileRendering ==
  (~effectPending /\ \A id \in RenderIds : ~(RenderInFlight(renders[id]) /\ renders[id].isMounted))
    => ~previewLoading

====
